---- MODULE Spec2Model ----
(***************************************************************************)
(* Model of the API gateway backend (src/backend/src): the token codec     *)
(* (auth/jwt.rs), the session guard (auth/middleware.rs), the router       *)
(* (routes/mod.rs) and the chat stream relay (routes/chat.rs).             *)
(*                                                                         *)
(* The specifications share the variables:                                 *)
(*   SpecCodec    create_access_token / verify_token against a moving      *)
(*                clock                                                    *)
(*   SpecGuard    one request through api_routes and auth_middleware       *)
(*   SpecRelay    one chat exchange through build_sse_stream               *)
(*   SpecSession  login, refresh and logout (routes/auth.rs) with the      *)
(*                users table and the tokens handed out                    *)
(***************************************************************************)
EXTENDS Integers, Sequences, FiniteSets, TLC

VARIABLES
    now,         \* the wall clock (Utc::now()), in ticks of 1/TicksPerSec s
    jwt_secret,  \* Config.jwt_secret
    tok,         \* the token string a client holds
    issued,      \* the arguments of the create_access_token call that made tok
    vres,        \* the result of the last verify_token call
    req,         \* the request being served: route and Authorization header
    resp,        \* what the router produced for req
    \* one chat exchange per exchange id (routes/chat.rs):
    pc,          \* where the exchange's handler or stream generator stands
    search,      \* what the retrieval call of chat_stream returned
    llm_body,    \* the body of the generation call: query and context
    sources,     \* the Vec<Source> handed to build_sse_stream
    events,      \* the events the stream has yielded, in order
    upstream,    \* the generation call's response: bytes not yet read, ending
    buffer,      \* build_sse_stream's buffer
    received,    \* the bytes of the chunks read so far
    lines,       \* the lines taken out of buffer so far
    calls,       \* how often each collaborator was called
    reply,       \* what chat_stream returned: the Sse response or an AppError
    conn,        \* the connection to the LLM service: "none", "open", "closed"
    \* the sessions (routes/auth.rs):
    users,       \* the rows of the users table, by id
    held,        \* the tokens login and refresh have handed out so far
    out,         \* the response to the last call of login, refresh or logout
                 \* or to the last guarded request
    history      \* what has been called so far: issuing calls, logouts, clock
                 \* jumps, and the refresh tokens that were used

authVars == <<now, jwt_secret, tok, issued, vres, req, resp>>

relayVars ==
    <<pc, search, llm_body, sources, events, upstream, buffer, received,
      lines, calls, reply, conn>>

sessionVars == <<users, held, out, history>>

vars == <<authVars, relayVars, sessionVars>>

(***************************************************************************)
(* Bounds of the model.                                                    *)
(***************************************************************************)
\* sub-second resolution of the clock
TicksPerSec == 2
\* the clock starts StartSecs seconds after the epoch ...
StartSecs == 100
\* ... and is followed for SpanSecs seconds
SpanSecs == 64
\* user ids (uuids) in play
NumUsers == 2
\* longest token lifetime requested from create_access_token
MaxTtl == 2
\* tokens are issued during the first IssueSecs seconds that are followed
IssueSecs == 2

\* Validation::default() of the jsonwebtoken crate: leeway of 60 seconds
LEEWAY == 60

None == [kind |-> "None"]
Ok(v) == [kind |-> "Ok", val |-> v]
Err(e) == [kind |-> "Err", err |-> e]

Keys == {"k1", "k2"}
UserIds == 1..NumUsers
Names == {"alice", "bob"}
Roles == {"admin", "user"}
\* (user_id, username, role) triples handed to the codec
Identities ==
    {<<1, "alice", "admin">>, <<NumUsers, "bob", "user">>, <<1, "bob", "admin">>}
Ttls == 1..MaxTtl

(***************************************************************************)
(* Uuid::to_string and Uuid::parse_str.  A string is a uuid in hyphenated  *)
(* form or some other text.                                                *)
(***************************************************************************)
UuidToString(id) == [fmt |-> "uuid", id |-> id]
NotAUuid == [fmt |-> "text", id |-> 0]
ParseUuid(s) == IF s.fmt = "uuid" THEN Ok(s.id) ELSE Err("uuid")

(***************************************************************************)
(* serde: a Claims struct to a JSON object (a sequence of members) and     *)
(* back.  Deserialising needs all five members.                            *)
(***************************************************************************)
ClaimFields == <<"sub", "username", "role", "exp", "iat">>

Serialize(claims) ==
    << <<"sub", claims.sub>>, <<"username", claims.username>>,
       <<"role", claims.role>>, <<"exp", claims.exp>>, <<"iat", claims.iat>> >>

HasMember(obj, k) == \E i \in DOMAIN obj : obj[i][1] = k
Member(obj, k) == obj[CHOOSE i \in DOMAIN obj : obj[i][1] = k][2]

Deserialize(obj) ==
    IF \A i \in DOMAIN ClaimFields : HasMember(obj, ClaimFields[i])
    THEN Ok([sub |-> Member(obj, "sub"), username |-> Member(obj, "username"),
             role |-> Member(obj, "role"), exp |-> Member(obj, "exp"),
             iat |-> Member(obj, "iat")])
    ELSE Err("Json")

(***************************************************************************)
(* jsonwebtoken::encode / decode with Header::default() (HS256) and        *)
(* Validation::default().  The MAC is ideal: two signatures are equal      *)
(* exactly when key and message are.                                       *)
(***************************************************************************)
HmacSign(key, msg) == [key |-> key, msg |-> msg]

encode(claims, secret) ==
    [kind |-> "jws", payload |-> Serialize(claims),
     sig |-> HmacSign(secret, Serialize(claims))]

\* a string that is not three dot-separated base64 parts
RawToken(text) == [kind |-> "raw", text |-> text]

Timestamp(t) == t \div TicksPerSec

\* decode that validates the expiry before the signature
decodeExpiryFirst(token, secret, t) ==
    IF token.kind # "jws" THEN Err("InvalidToken")
    ELSE LET d == Deserialize(token.payload) IN
         IF d.kind = "Ok" /\ d.val.exp < Timestamp(t) - LEEWAY
            THEN Err("ExpiredSignature")
         ELSE IF token.sig # HmacSign(secret, token.payload)
            THEN Err("InvalidSignature")
         ELSE d

\* decode with no leeway
decodeNoLeeway(token, secret, t) ==
    IF token.kind # "jws" THEN Err("InvalidToken")
    ELSE IF token.sig # HmacSign(secret, token.payload)
        THEN Err("InvalidSignature")
    ELSE LET d == Deserialize(token.payload) IN
         IF d.kind = "Err" THEN d
         ELSE IF d.val.exp <= Timestamp(t) THEN Err("ExpiredSignature")
         ELSE d

\* decode that does not compare the signature
decodeNoSignature(token, secret, t) ==
    IF token.kind # "jws" THEN Err("InvalidToken")
    ELSE LET d == Deserialize(token.payload) IN
         IF d.kind = "Err" THEN d
         ELSE IF d.val.exp < Timestamp(t) - LEEWAY THEN Err("ExpiredSignature")
         ELSE d

\* decode: token structure, then signature, then the claims, then expiry
decode(token, secret, t) ==
    IF token.kind # "jws" THEN Err("InvalidToken")
    ELSE IF token.sig # HmacSign(secret, token.payload)
        THEN Err("InvalidSignature")
    ELSE LET d == Deserialize(token.payload) IN
         IF d.kind = "Err" THEN d
         ELSE IF d.val.exp < Timestamp(t) - LEEWAY THEN Err("ExpiredSignature")
         ELSE d

\* create_access_token with the expiry rounded up to the next full second
create_access_token_roundup(user_id, username, role, secret, expiry_secs, t) ==
    encode([sub |-> UuidToString(user_id), username |-> username, role |-> role,
            iat |-> Timestamp(t),
            exp |-> Timestamp(t + expiry_secs * TicksPerSec + TicksPerSec - 1)],
           secret)

\* jwt::create_access_token at clock t
create_access_token(user_id, username, role, secret, expiry_secs, t) ==
    encode([sub |-> UuidToString(user_id), username |-> username, role |-> role,
            iat |-> Timestamp(t),
            exp |-> Timestamp(t + expiry_secs * TicksPerSec)],
           secret)

\* jwt::verify_token at clock t
verify_token(token, secret, t) == decode(token, secret, t)

(***************************************************************************)
(* Token strings a client can present at clock t besides the ones the      *)
(* codec just made: text that is no token, and tokens of the codec's       *)
(* format with any claims, signed with any key, expiring around t.         *)
(***************************************************************************)
ExpOffsets == {0 - LEEWAY - 1, 0 - LEEWAY, 0 - 1, 0, 1}

PresentedClaims(t) ==
    { [sub |-> s, username |-> i[2], role |-> i[3],
       iat |-> Timestamp(t) + o - 1, exp |-> Timestamp(t) + o] :
         s \in {UuidToString(1), NotAUuid}, i \in Identities, o \in ExpOffsets }

PresentedTokens(t) ==
    {RawToken(""), RawToken("garbage")}
    \cup { encode(c, k) : c \in PresentedClaims(t), k \in Keys }
    \cup { [kind |-> "jws",
            payload |-> Serialize([c EXCEPT !.role = "admin"]),
            sig |-> HmacSign(k, Serialize([c EXCEPT !.role = "user"]))] :
              c \in {d \in PresentedClaims(t) : d.exp = Timestamp(t) + 1},
              k \in Keys }
    \cup { [kind |-> "jws", payload |-> << <<"sub", UuidToString(1)>> >>,
            sig |-> HmacSign(k, << <<"sub", UuidToString(1)>> >>)] : k \in Keys }

(***************************************************************************)
(* The chat exchanges: no request for /chat/stream has arrived.            *)
(***************************************************************************)
Exchanges == {1, 2}

NoExchange ==
    /\ pc = [e \in Exchanges |-> "idle"]
    /\ search = [e \in Exchanges |-> None]
    /\ llm_body = [e \in Exchanges |-> None]
    /\ sources = [e \in Exchanges |-> <<>>]
    /\ events = [e \in Exchanges |-> <<>>]
    /\ upstream = [e \in Exchanges |-> None]
    /\ buffer = [e \in Exchanges |-> <<>>]
    /\ received = [e \in Exchanges |-> <<>>]
    /\ lines = [e \in Exchanges |-> <<>>]
    /\ calls = [e \in Exchanges |-> [etl |-> 0, llm |-> 0]]
    /\ reply = [e \in Exchanges |-> None]
    /\ conn = [e \in Exchanges |-> "none"]

(***************************************************************************)
(* The sessions: the users table as the migrations leave it with its       *)
(* users, no token handed out, nothing called.                             *)
(***************************************************************************)
\* usernames are unique
NameOf(id) ==
    IF id = 1 THEN "alice" ELSE IF id = 2 THEN "bob" ELSE IF id = 3 THEN "carol"
    ELSE "dave"

UserRow(id, role, active, login_at) ==
    [id |-> id, username |-> NameOf(id), role |-> role, is_active |-> active,
     last_login_at |-> login_at]

NoSession ==
    /\ users = [id \in UserIds |-> UserRow(id, "user", TRUE, None)]
    /\ held = {}
    /\ out = None
    /\ history = [events |-> 0, used |-> {}, logged_out |-> FALSE]

(***************************************************************************)
(* The clock.                                                              *)
(***************************************************************************)
MaxNow == (StartSecs + SpanSecs) * TicksPerSec

Tick(d) ==
    /\ now + d <= MaxNow
    /\ now' = now + d
    /\ tok' = IF issued = None THEN None ELSE tok
    /\ vres' = None
    /\ req' = None
    /\ resp' = None
    /\ UNCHANGED <<jwt_secret, issued, relayVars, sessionVars>>

(***************************************************************************)
(* SpecCodec: the codec's operations.                                      *)
(***************************************************************************)
IssueAccess(i, secret, ttl) ==
    /\ now < (StartSecs + IssueSecs) * TicksPerSec
    /\ tok' = create_access_token(i[1], i[2], i[3], secret, ttl, now)
    /\ issued' = [kind |-> "Access", user_id |-> i[1], username |-> i[2],
                  role |-> i[3], secret |-> secret, ttl |-> ttl, at |-> now]
    /\ vres' = None
    /\ UNCHANGED <<now, jwt_secret, req, resp, relayVars, sessionVars>>

\* a client presents some other token string and it is verified
VerifyPresented(t, secret) ==
    /\ vres = None
    /\ tok' = t
    /\ issued' = None
    /\ vres' = [kind |-> "Verified", secret |-> secret,
                res |-> verify_token(t, secret, now)]
    /\ UNCHANGED <<now, jwt_secret, req, resp, relayVars, sessionVars>>

\* the issued token is verified
Verify(secret) ==
    /\ issued # None
    /\ vres = None
    /\ vres' = [kind |-> "Verified", secret |-> secret,
                res |-> verify_token(tok, secret, now)]
    /\ UNCHANGED <<now, jwt_secret, tok, issued, req, resp, relayVars, sessionVars>>

InitCodec ==
    /\ now \in {StartSecs * TicksPerSec, StartSecs * TicksPerSec + 1}
    /\ jwt_secret = "k1"
    /\ tok = None
    /\ issued = None
    /\ vres = None
    /\ req = None
    /\ resp = None
    /\ NoExchange
    /\ NoSession

NextCodec ==
    \/ \E d \in {1, LEEWAY * TicksPerSec} : Tick(d)
    \/ \E i \in Identities, k \in Keys, ttl \in Ttls : IssueAccess(i, k, ttl)
    \/ \E t \in PresentedTokens(now), k \in Keys : VerifyPresented(t, k)
    \/ \E k \in Keys : Verify(k)

SpecCodec == InitCodec /\ [][NextCodec]_vars

(***************************************************************************)
(* C5: a token made by create_access_token and verified with the same key  *)
(* before it expires yields claims whose sub, username and role are the    *)
(* arguments, and exp - iat is the requested lifetime.                     *)
(***************************************************************************)
BeforeExpiry == Timestamp(now) < Timestamp(issued.at) + issued.ttl

\* C5: verify(issue_access(subject, name, role, key, ttl), key) before expiry
\* returns the subject, name and role given, and exp - iat = ttl.
C5_RoundTrip ==
    (issued # None /\ vres # None /\ vres.secret = issued.secret /\ BeforeExpiry)
    => /\ vres.res.kind = "Ok"
       /\ vres.res.val.sub = UuidToString(issued.user_id)
       /\ ParseUuid(vres.res.val.sub) = Ok(issued.user_id)
       /\ vres.res.val.username = issued.username
       /\ vres.res.val.role = issued.role
       /\ vres.res.val.exp - vres.res.val.iat = issued.ttl

\* a token issued off a full second, verified later and before expiry
C5_Witness ==
    /\ issued # None /\ vres # None
    /\ vres.secret = issued.secret
    /\ issued.at % TicksPerSec # 0
    /\ now > issued.at
    /\ BeforeExpiry
    /\ vres.res.kind = "Ok"

(***************************************************************************)
(* C6, C7.  Of the token that was verified: is it of the codec's format    *)
(* with a payload that is a Claims, was it signed with the verifying key,  *)
(* and its exp.                                                            *)
(***************************************************************************)
VerifiedClaims ==
    /\ vres # None
    /\ tok.kind = "jws"
    /\ Deserialize(tok.payload).kind = "Ok"

SignedWithVerifyingKey == tok.sig = HmacSign(vres.secret, tok.payload)

TokExp == Member(tok.payload, "exp")

ProtectedRoutesNoList == {"/chat/stream", "/documents/upload"}

\* the routes of the router that carries the auth_middleware layer
ProtectedRoutes == {"/chat/stream", "/documents/upload", "/documents"}

\* the routes of the router without a layer
PublicRoutes == {"/auth/login", "/auth/refresh", "/auth/logout", "/health"}

\* every route api_routes registers
Routes ==
    {"/chat/stream", "/documents/upload", "/documents",
     "/auth/login", "/auth/refresh", "/auth/logout", "/health"}

\* An Authorization header value: a string made of a leading part and the
\* rest, or a value that is not visible ASCII (to_str() fails).
HeaderStr(prefix, cred) == [kind |-> "str", prefix |-> prefix, cred |-> cred]
HeaderBytes == [kind |-> "bytes"]

\* req.headers().get("Authorization").and_then(|v| v.to_str().ok())
AuthHeader(header) == IF header.kind = "str" THEN header ELSE None

\* h.starts_with("Bearer ")
StartsWithBearer(h) == h.prefix = "Bearer "

\* the JSON body of a rejection
RejectBody(code, message) ==
    [success |-> FALSE, error |-> [code |-> code, message |-> message]]

\* no handler ran
NoHandler == "none"

Reject(status, message, v) ==
    [guard |-> TRUE, verify |-> v, status |-> status,
     body |-> RejectBody("UNAUTHORIZED", message),
     handler |-> NoHandler, identity |-> None]

\* next.run(req) with the AuthUser in the request's extensions
RunHandler(route, auth_user, v) ==
    [guard |-> TRUE, verify |-> v, status |-> 200, body |-> None,
     handler |-> route, identity |-> auth_user]

AuthUser(user_id, claims) ==
    [user_id |-> user_id, username |-> claims.username, role |-> claims.role]

\* auth_middleware that answers 403 to a subject that is no uuid
auth_middleware_forbidden(route, header, secret, t) ==
    LET h == AuthHeader(header) IN
    IF h = None \/ ~StartsWithBearer(h)
    THEN Reject(401, "Missing or invalid authorization header", None)
    ELSE LET v == verify_token(h.cred, secret, t) IN
         IF v.kind = "Ok"
         THEN LET id == ParseUuid(v.val.sub) IN
              IF id.kind = "Err" THEN Reject(403, "Invalid token", v)
              ELSE RunHandler(route, AuthUser(id.val, v.val), v)
         ELSE Reject(401, "Invalid or expired token", v)

\* auth_middleware that takes the scheme in either case
auth_middleware_anycase(route, header, secret, t) ==
    LET h == AuthHeader(header) IN
    IF h = None \/ h.prefix \notin {"Bearer ", "bearer "}
    THEN Reject(401, "Missing or invalid authorization header", None)
    ELSE LET v == verify_token(h.cred, secret, t) IN
         IF v.kind = "Ok"
         THEN LET id == ParseUuid(v.val.sub) IN
              IF id.kind = "Err" THEN Reject(401, "Invalid token", v)
              ELSE RunHandler(route, AuthUser(id.val, v.val), v)
         ELSE Reject(401, "Invalid or expired token", v)

\* auth_middleware for one request at clock t
auth_middleware(route, header, secret, t) ==
    LET h == AuthHeader(header) IN
    IF h = None \/ ~StartsWithBearer(h)
    THEN Reject(401, "Missing or invalid authorization header", None)
    ELSE LET v == verify_token(h.cred, secret, t) IN
         IF v.kind = "Ok"
         THEN LET id == ParseUuid(v.val.sub) IN
              IF id.kind = "Err" THEN Reject(401, "Invalid token", v)
              ELSE RunHandler(route, AuthUser(id.val, v.val), v)
         ELSE Reject(401, "Invalid or expired token", v)

\* api_routes: a protected route runs behind the guard, a public one runs
\* its handler directly
api_routes(route, header, secret, t) ==
    IF route \in ProtectedRoutes
    THEN auth_middleware(route, header, secret, t)
    ELSE [guard |-> FALSE, verify |-> None, status |-> 200, body |-> None,
          handler |-> route, identity |-> None]

\* the Authorization headers a client sends at clock t
Headers(t) ==
    {None, HeaderBytes}
    \cup { HeaderStr(p, c) : p \in {"Basic ", "bearer ", "Bearer"},
                             c \in {RawToken(""), RawToken("garbage")} }
    \cup { HeaderStr("Bearer ", c) : c \in PresentedTokens(t) }

Request(route, header) ==
    /\ req = None
    /\ req' = [route |-> route, header |-> header]
    /\ resp' = api_routes(route, header, jwt_secret, now)
    /\ UNCHANGED <<now, jwt_secret, tok, issued, vres, relayVars, sessionVars>>

InitGuard ==
    /\ now \in {StartSecs * TicksPerSec, StartSecs * TicksPerSec + 1}
    /\ jwt_secret \in Keys
    /\ tok = None
    /\ issued = None
    /\ vres = None
    /\ req = None
    /\ resp = None
    /\ NoExchange
    /\ NoSession

NextGuard ==
    \/ \E d \in {LEEWAY * TicksPerSec} : Tick(d)
    \/ \E r \in Routes, h \in Headers(now) : Request(r, h)

SpecGuard == InitGuard /\ [][NextGuard]_vars

(***************************************************************************)
(* C3.  The four causes of a rejection, read off the request.              *)
(***************************************************************************)
Rejected == resp # None /\ resp.guard /\ resp.handler = NoHandler

NoHeaderCause == req.header = None \/ req.header.kind = "bytes"
NonBearerCause == req.header.kind = "str" /\ req.header.prefix # "Bearer "
BearerCause == req.header.kind = "str" /\ req.header.prefix = "Bearer "
EmptyTokenCause == BearerCause /\ req.header.cred = RawToken("")

BearerClaims ==
    IF BearerCause /\ req.header.cred.kind = "jws"
       /\ req.header.cred.sig = HmacSign(jwt_secret, req.header.cred.payload)
       /\ Deserialize(req.header.cred.payload).kind = "Ok"
       /\ Deserialize(req.header.cred.payload).val.exp
             >= Timestamp(now) - LEEWAY
       /\ Deserialize(req.header.cred.payload).val.sub.fmt = "uuid"
    THEN Deserialize(req.header.cred.payload)
    ELSE None

\* C4: handler of an authenticated route runs iff the Bearer token verifies
\* with a uuid subject, with that identity; public routes skip the guard.
C4_GuardedHandlers ==
    resp # None
    => /\ req.route \in {"/chat/stream", "/documents/upload", "/documents"}
          => /\ resp.guard
             /\ resp.handler # NoHandler <=> BearerClaims # None
             /\ resp.handler # NoHandler
                => /\ resp.handler = req.route
                   /\ resp.identity.user_id = BearerClaims.val.sub.id
                   /\ resp.identity.username = BearerClaims.val.username
                   /\ resp.identity.role = BearerClaims.val.role
       /\ req.route \in {"/auth/login", "/auth/refresh", "/auth/logout", "/health"}
          => /\ ~resp.guard
             /\ resp.handler = req.route

\* the document list handler runs for an accepted token
C4_Witness ==
    /\ resp # None
    /\ req.route = "/documents"
    /\ resp.handler = "/documents"
    /\ resp.identity.username = "bob"
    /\ resp.identity.role = "user"

(***************************************************************************)
(* C8: a token signed with a key other than the verifying key fails with   *)
(* InvalidSignature, and the guard attaches no identity for it.            *)
(***************************************************************************)
\* C8: a token signed with another key fails with InvalidSignature and no
\* identity is attached.
C8_ForeignKey ==
    (resp # None /\ resp.guard /\ BearerCause /\ req.header.cred.kind = "jws"
        /\ req.header.cred.sig.key # jwt_secret)
    => /\ resp.verify = Err("InvalidSignature")
       /\ resp.identity = None
       /\ resp.handler = NoHandler

\* an unexpired token with a uuid subject, signed with the other key
C8_Witness ==
    /\ resp # None /\ resp.guard /\ BearerCause
    /\ req.header.cred.kind = "jws"
    /\ req.header.cred.sig.key # jwt_secret
    /\ Deserialize(req.header.cred.payload).kind = "Ok"
    /\ Deserialize(req.header.cred.payload).val.exp > Timestamp(now)
    /\ Deserialize(req.header.cred.payload).val.sub.fmt = "uuid"
    /\ resp.verify = Err("InvalidSignature")

(***************************************************************************)
(* Text.  A string or a chunk is a sequence of bytes, one-character        *)
(* strings; "L" and "C" stand for the lead byte and the continuation byte  *)
(* of a two-byte UTF-8 character.                                          *)
(***************************************************************************)
LF == "\n"
CR == "\r"
QUOTE == "\""

\* std::str::from_utf8(&chunk).is_ok()
Utf8Valid(chunk) ==
    \A i \in DOMAIN chunk :
        /\ chunk[i] = "L" => (i < Len(chunk) /\ chunk[i + 1] = "C")
        /\ chunk[i] = "C" => (i > 1 /\ chunk[i - 1] = "L")

\* str::find('\n'): the index of the first line feed, 0 for None
FindNewline(buf) ==
    IF \E i \in DOMAIN buf : buf[i] = LF
    THEN CHOOSE i \in DOMAIN buf :
            buf[i] = LF /\ \A j \in 1..(i - 1) : buf[j] # LF
    ELSE 0

\* str::trim_end_matches('\r')
RECURSIVE TrimEndCr(_)
TrimEndCr(str) ==
    IF str # <<>> /\ str[Len(str)] = CR
    THEN TrimEndCr(SubSeq(str, 1, Len(str) - 1))
    ELSE str

\* char::is_whitespace for the bytes in play
IsSpace(c) == c \in {" ", CR, LF}

\* str::trim
RECURSIVE TrimStart(_)
TrimStart(str) ==
    IF str # <<>> /\ IsSpace(str[1]) THEN TrimStart(Tail(str)) ELSE str

RECURSIVE TrimEnd(_)
TrimEnd(str) ==
    IF str # <<>> /\ IsSpace(str[Len(str)])
    THEN TrimEnd(SubSeq(str, 1, Len(str) - 1))
    ELSE str

Trim(str) == TrimEnd(TrimStart(str))

DataPrefix == <<"d", "a", "t", "a", ":", " ">>

\* line.strip_prefix("data: ")
StripPrefix(line) ==
    IF Len(line) >= Len(DataPrefix)
       /\ SubSeq(line, 1, Len(DataPrefix)) = DataPrefix
    THEN Ok(SubSeq(line, Len(DataPrefix) + 1, Len(line)))
    ELSE None

(***************************************************************************)
(* serde_json::from_str::<Value>: objects, strings, numbers of digits and  *)
(* the three literals, with whitespace between the tokens.  A parse gives  *)
(* [ok, val, next]: next is the index after the value.                     *)
(***************************************************************************)
JsonWs == {" ", CR, LF}
Digits == {"0", "1", "2", "3", "4", "5", "6", "7", "8", "9"}

JStr(str) == [t |-> "str", s |-> str]
JObj(members) == [t |-> "obj", m |-> members]
JLit(name) == [t |-> "lit", s |-> name]
JNum(digits) == [t |-> "num", s |-> digits]

NoParse == [ok |-> FALSE, val |-> None, next |-> 0]
Parsed(v, n) == [ok |-> TRUE, val |-> v, next |-> n]

RECURSIVE SkipWs(_, _)
SkipWs(str, i) ==
    IF i <= Len(str) /\ str[i] \in JsonWs THEN SkipWs(str, i + 1) ELSE i

\* a string starts at i: up to the next quote, no control character inside
ParseString(str, i) ==
    IF i > Len(str) \/ str[i] # QUOTE THEN NoParse
    ELSE LET close == {j \in (i + 1)..Len(str) : str[j] = QUOTE} IN
         IF close = {} THEN NoParse
         ELSE LET j == CHOOSE k \in close : \A l \in close : k <= l
                  body == SubSeq(str, i + 1, j - 1) IN
              IF \E k \in DOMAIN body : body[k] \in {CR, LF}
              THEN NoParse
              ELSE Parsed(JStr(body), j + 1)

HasWord(str, i, word) ==
    /\ i + Len(word) - 1 <= Len(str)
    /\ SubSeq(str, i, i + Len(word) - 1) = word

RECURSIVE DigitsEnd(_, _)
DigitsEnd(str, i) ==
    IF i <= Len(str) /\ str[i] \in Digits THEN DigitsEnd(str, i + 1) ELSE i

ParseNumber(str, i) ==
    LET j == DigitsEnd(str, i) IN
    IF j = i \/ (j > i + 1 /\ str[i] = "0") THEN NoParse
    ELSE Parsed(JNum(SubSeq(str, i, j - 1)), j)

RECURSIVE ParseValue(_, _)
RECURSIVE ParseMembers(_, _, _)

\* after "{" or ",": a member, then "," and more members, or "}"
ParseMembers(str, i, acc) ==
    LET k == ParseString(str, SkipWs(str, i)) IN
    IF ~k.ok THEN NoParse
    ELSE LET c == SkipWs(str, k.next) IN
         IF c > Len(str) \/ str[c] # ":" THEN NoParse
         ELSE LET v == ParseValue(str, SkipWs(str, c + 1)) IN
              IF ~v.ok THEN NoParse
              ELSE LET n == SkipWs(str, v.next)
                       all == Append(acc, <<k.val.s, v.val>>) IN
                   IF n > Len(str) THEN NoParse
                   ELSE IF str[n] = "}" THEN Parsed(JObj(all), n + 1)
                   ELSE IF str[n] = "," THEN ParseMembers(str, n + 1, all)
                   ELSE NoParse

ParseValue(str, i) ==
    IF i > Len(str) THEN NoParse
    ELSE IF str[i] = QUOTE THEN ParseString(str, i)
    ELSE IF str[i] = "{"
        THEN LET n == SkipWs(str, i + 1) IN
             IF n <= Len(str) /\ str[n] = "}" THEN Parsed(JObj(<<>>), n + 1)
             ELSE ParseMembers(str, i + 1, <<>>)
    ELSE IF HasWord(str, i, <<"t", "r", "u", "e">>)
        THEN Parsed(JLit("true"), i + 4)
    ELSE IF HasWord(str, i, <<"f", "a", "l", "s", "e">>)
        THEN Parsed(JLit("false"), i + 5)
    ELSE IF HasWord(str, i, <<"n", "u", "l", "l">>)
        THEN Parsed(JLit("null"), i + 4)
    ELSE ParseNumber(str, i)

\* serde_json::from_str: one value and nothing but whitespace after it
FromStr(str) ==
    LET v == ParseValue(str, SkipWs(str, 1)) IN
    IF v.ok /\ SkipWs(str, v.next) = Len(str) + 1 THEN Ok(v.val) ELSE Err("Json")

ContentKey == <<"c", "o", "n", "t", "e", "n", "t">>

\* Value::get(key) on an object: the last member of that name
JsonGet(value, key) ==
    IF value.t # "obj" THEN None
    ELSE LET at == {i \in DOMAIN value.m : value.m[i][1] = key} IN
         IF at = {} THEN None
         ELSE Ok(value.m[CHOOSE i \in at : \A j \in at : j <= i][2])

\* data_value.get("content").and_then(|c| c.as_str())
ContentOf(value) ==
    LET c == JsonGet(value, ContentKey) IN
    IF c # None /\ c.val.t = "str" THEN Ok(c.val.s) ELSE None

(***************************************************************************)
(* The retrieval call of chat_stream and extract_search_results.  The      *)
(* search response is a JSON value whose member names and strings are      *)
(* written as whole strings.                                               *)
(***************************************************************************)
JArr(items) == [t |-> "arr", a |-> items]

\* and_then(|v| v.as_str()).unwrap_or_default()
StrOrDefault(payload, key) ==
    LET v == JsonGet(payload, key) IN
    IF v # None /\ v.val.t = "str" THEN v.val.s ELSE ""

\* and_then(|s| s.as_f64()).unwrap_or(0.0)
ScoreOrDefault(item) ==
    LET v == JsonGet(item, "score") IN
    IF v # None /\ v.val.t = "num" THEN v.val.s ELSE 0

Source(item, payload) ==
    [document_id |-> StrOrDefault(payload, "document_id"),
     file_name |-> StrOrDefault(payload, "file_name"),
     heading |-> StrOrDefault(payload, "heading"),
     score |-> ScoreOrDefault(item)]

\* the loop over the items: an item without payload is passed over
RECURSIVE ExtractItems(_, _, _)
ExtractItems(items, context_texts, srcs) ==
    IF items = <<>> THEN <<context_texts, srcs>>
    ELSE LET item == Head(items)
             payload == JsonGet(item, "payload") IN
         IF payload = None THEN ExtractItems(Tail(items), context_texts, srcs)
         ELSE LET text == StrOrDefault(payload.val, "text") IN
              ExtractItems(Tail(items),
                           IF text # "" THEN Append(context_texts, text)
                                        ELSE context_texts,
                           Append(srcs, Source(item, payload.val)))

\* extract_search_results that gives up when one item has no text
extract_search_results_strict(search_body) ==
    LET data == JsonGet(search_body, "data")
        results == IF data = None THEN None ELSE JsonGet(data.val, "results") IN
    IF results # None /\ results.val.t = "arr"
    THEN IF \E i \in DOMAIN results.val.a :
               \/ JsonGet(results.val.a[i], "payload") = None
               \/ StrOrDefault(JsonGet(results.val.a[i], "payload").val,
                               "text") = ""
         THEN <<<<>>, <<>>>>
         ELSE ExtractItems(results.val.a, <<>>, <<>>)
    ELSE <<<<>>, <<>>>>

extract_search_results(search_body) ==
    LET data == JsonGet(search_body, "data")
        results == IF data = None THEN None ELSE JsonGet(data.val, "results") IN
    IF results # None /\ results.val.t = "arr"
    THEN ExtractItems(results.val.a, <<>>, <<>>)
    ELSE <<<<>>, <<>>>>

\* what the match on send() and json() of chat_stream evaluates to
SearchResult(outcome) ==
    IF outcome.kind = "json" THEN extract_search_results(outcome.body)
    ELSE <<<<>>, <<>>>>

Item(n, text) ==
    JObj(<< <<"score", [t |-> "num", s |-> n]>>,
            <<"payload",
              JObj(<< <<"text", JStr(text)>>, <<"document_id", JStr("doc")>>,
                      <<"file_name", JStr("a.pdf")>>,
                      <<"heading", JStr("Intro")>> >>)>> >>)

ItemNoText(n) ==
    JObj(<< <<"score", [t |-> "num", s |-> n]>>,
            <<"payload", JObj(<< <<"document_id", JStr("doc")>> >>)>> >>)

SearchBody(items) ==
    JObj(<< <<"success", JLit("true")>>,
            <<"data", JObj(<< <<"results", JArr(items)>> >>)>> >>)

\* what the retrieval collaborator does with the one call
SearchOutcomes ==
    { [kind |-> "unreachable"], [kind |-> "unparseable"],
      [kind |-> "json", body |-> JObj(<< <<"success", JLit("false")>> >>)],
      [kind |-> "json", body |-> SearchBody(<<Item(9, "ctx"), ItemNoText(3)>>)] }

(***************************************************************************)
(* build_sse_stream: the events, and the lines of the buffer.              *)
(***************************************************************************)
SourcesEvent(srcs) == [kind |-> "sources", data |-> srcs]
ContentEvent(content) == [kind |-> "content", data |-> content]
ErrorEvent(message) == [kind |-> "error", data |-> message]
DoneEvent == [kind |-> "done", data |-> TRUE]

\* the event of a line, whatever the type of its content member
LineEventAnyContent(line) ==
    LET data_str == StripPrefix(line) IN
    IF data_str = None THEN None
    ELSE LET data_value == FromStr(data_str.val) IN
         IF data_value.kind = "Err" THEN None
         ELSE LET content == JsonGet(data_value.val, ContentKey) IN
              IF content = None THEN None
              ELSE ContentEvent(IF content.val.t = "str" THEN content.val.s
                                ELSE <<>>)

\* the event one line gives rise to, None when it is discarded
LineEvent(line) ==
    LET data_str == StripPrefix(line) IN
    IF data_str = None THEN None
    ELSE LET data_value == FromStr(data_str.val) IN
         IF data_value.kind = "Err" THEN None
         ELSE LET content == ContentOf(data_value.val) IN
              IF content = None THEN None ELSE ContentEvent(content.val)

\* The inner while loop up to its next yield: lines are taken off the
\* front of the buffer until one gives an event or no line feed is left.
RECURSIVE RunLines(_, _)
RunLines(buf, taken) ==
    LET newline_pos == FindNewline(buf) IN
    IF newline_pos = 0 THEN [buffer |-> buf, lines |-> taken, event |-> None]
    ELSE LET line == TrimEndCr(SubSeq(buf, 1, newline_pos - 1))
             rest == SubSeq(buf, newline_pos + 1, Len(buf))
             event == LineEvent(line) IN
         IF event # None
         THEN [buffer |-> rest, lines |-> Append(taken, line), event |-> event]
         ELSE RunLines(rest, Append(taken, line))

(***************************************************************************)
(* What the generation collaborator sends.                                 *)
(***************************************************************************)
\* longest chunk bytes_stream hands over
MaxChunk == 24

ContentLine(content) ==
    DataPrefix \o <<"{", QUOTE>> \o ContentKey \o <<QUOTE, ":", QUOTE>>
        \o content \o <<QUOTE, "}">>

DoneLine ==
    DataPrefix \o <<"{", QUOTE, "d", "o", "n", "e", QUOTE, ":",
                    "t", "r", "u", "e", "}">>

\* the content lines "a" and "b", the second one ended by CR LF
TwoContentLines ==
    ContentLine(<<"a">>) \o <<LF>> \o ContentLine(<<"b">>) \o <<CR, LF>>

\* a line whose content member is null
NullContentLine ==
    DataPrefix \o <<"{", QUOTE>> \o ContentKey
        \o <<QUOTE, ":", "n", "u", "l", "l", "}">>

Bodies ==
    { <<>>,
      TwoContentLines,
      NullContentLine \o <<LF>> \o ContentLine(<<"k">>) \o <<LF>>,
      ContentLine(<<"L", "C">>) \o <<LF>>,
      <<":", " ", "p", LF>> \o DataPrefix \o <<"o", "o", "p", "s", LF>>
          \o DoneLine \o <<LF>> \o ContentLine(<<"z">>) }

\* how the byte stream behaves once its bytes are delivered: it is closed,
\* it gives an error (at any moment), or the connection stays open and
\* silent
Endings == {"eof", "error", "stall"}

Queries == { <<"h", "i">>, <<" ", "h", "i", LF>>, <<" ", " ">>, <<>> }

(***************************************************************************)
(* One chat exchange e, one action per poll of the handler's future or of  *)
(* the stream.                                                             *)
(***************************************************************************)
\* AppError::into_response
AppErrorResponse(err) ==
    LET triple ==
          IF err.variant = "Validation"
             THEN <<400, "VALIDATION_ERROR", err.msg>>
          ELSE IF err.variant = "Unauthorized"
             THEN <<401, "UNAUTHORIZED", "Authentication required">>
          ELSE IF err.variant = "Forbidden"
             THEN <<403, "FORBIDDEN", "Insufficient permissions">>
          ELSE IF err.variant = "NotFound"
             THEN <<404, "NOT_FOUND", err.msg>>
          ELSE <<500, "INTERNAL_ERROR", "Internal server error">> IN
    [status |-> triple[1],
     body |-> [success |-> FALSE, data |-> "null",
               error |-> [code |-> triple[2], message |-> triple[3]]]]

Validation(msg) == [variant |-> "Validation", msg |-> msg]

\* chat_stream that forwards the query without looking at it
ChatStreamUnchecked(e, q) ==
    /\ pc[e] = "idle"
    /\ pc' = [pc EXCEPT ![e] = "search"]
    /\ llm_body' = [llm_body EXCEPT ![e] = [query |-> Trim(q)]]
    /\ calls' = [calls EXCEPT ![e].etl = @ + 1]
    /\ UNCHANGED <<search, sources, events, upstream, buffer, received, lines,
                   reply>>
    /\ UNCHANGED <<authVars, sessionVars, conn>>

\* chat_stream up to the retrieval call
ChatStream(e, q) ==
    /\ pc[e] = "idle"
    /\ LET query == Trim(q) IN
       IF query = <<>>
       THEN /\ pc' = [pc EXCEPT ![e] = "rejected"]
            /\ reply' = [reply EXCEPT ![e] =
                  Err(AppErrorResponse(Validation("query must not be empty")))]
            /\ UNCHANGED <<llm_body, calls>>
       ELSE /\ pc' = [pc EXCEPT ![e] = "search"]
            /\ llm_body' = [llm_body EXCEPT ![e] = [query |-> query]]
            /\ calls' = [calls EXCEPT ![e].etl = @ + 1]
            /\ UNCHANGED reply
    /\ UNCHANGED <<search, sources, events, upstream, buffer, received, lines>>
    /\ UNCHANGED <<authVars, sessionVars, conn>>

\* chat_stream with the retrieval call's error passed on with `?`
SearchReturnRaise(e, outcome) ==
    /\ pc[e] = "search"
    /\ search' = [search EXCEPT ![e] = outcome]
    /\ IF outcome.kind = "json"
       THEN /\ llm_body' = [llm_body EXCEPT ![e] =
                  [query |-> @.query, context |-> SearchResult(outcome)[1]]]
            /\ sources' = [sources EXCEPT ![e] = SearchResult(outcome)[2]]
            /\ pc' = [pc EXCEPT ![e] = "announce"]
            /\ reply' = [reply EXCEPT ![e] = Ok("Sse")]
       ELSE /\ pc' = [pc EXCEPT ![e] = "rejected"]
            /\ reply' = [reply EXCEPT ![e] =
                  Err(AppErrorResponse([variant |-> "Internal",
                                        msg |-> "search failed"]))]
            /\ UNCHANGED <<llm_body, sources>>
    /\ UNCHANGED <<events, upstream, buffer, received, lines, calls>>
    /\ UNCHANGED <<authVars, sessionVars, conn>>

\* chat_stream from the retrieval call's result to the Sse response
SearchReturn(e, outcome) ==
    /\ pc[e] = "search"
    /\ search' = [search EXCEPT ![e] = outcome]
    /\ llm_body' = [llm_body EXCEPT ![e] =
                      [query |-> @.query, context |-> SearchResult(outcome)[1]]]
    /\ sources' = [sources EXCEPT ![e] = SearchResult(outcome)[2]]
    /\ pc' = [pc EXCEPT ![e] = "announce"]
    /\ UNCHANGED <<events, upstream, buffer, received, lines, calls>>
    /\ reply' = [reply EXCEPT ![e] = Ok("Sse")]
    /\ UNCHANGED <<authVars, sessionVars, conn>>

\* the first poll, with the sources event left out when there is no source
AnnounceIfAny(e) ==
    /\ pc[e] = "announce"
    /\ events' = [events EXCEPT ![e] =
                    IF sources[e] = <<>> THEN @
                    ELSE Append(@, SourcesEvent(sources[e]))]
    /\ pc' = [pc EXCEPT ![e] = "dial"]
    /\ UNCHANGED <<search, llm_body, sources, upstream, buffer, received,
                   lines, calls>>
    /\ UNCHANGED <<authVars, sessionVars, reply, conn>>

\* the first poll of the stream: the sources event
Announce(e) ==
    /\ pc[e] = "announce"
    /\ events' = [events EXCEPT ![e] = Append(@, SourcesEvent(sources[e]))]
    /\ pc' = [pc EXCEPT ![e] = "dial"]
    /\ UNCHANGED <<search, llm_body, sources, upstream, buffer, received,
                   lines, calls>>
    /\ UNCHANGED <<authVars, sessionVars, reply, conn>>

\* the next poll sends the request to the LLM service: from here the
\* generator holds the pending call, then the response and its byte stream
Dial(e) ==
    /\ pc[e] = "dial"
    /\ calls' = [calls EXCEPT ![e].llm = @ + 1]
    /\ pc' = [pc EXCEPT ![e] = "connecting"]
    /\ UNCHANGED <<search, llm_body, sources, events, upstream, buffer,
                   received, lines>>
    /\ conn' = [conn EXCEPT ![e] = "open"]
    /\ UNCHANGED <<authVars, sessionVars, reply>>

\* send() fails: the error event
ConnectFail(e) ==
    /\ pc[e] = "connecting"
    /\ upstream' = [upstream EXCEPT ![e] =
                      [status |-> "refused", rest |-> <<>>, ending |-> "eof"]]
    /\ events' = [events EXCEPT ![e] =
                    Append(@, ErrorEvent("LLM service unavailable"))]
    /\ pc' = [pc EXCEPT ![e] = "failed"]
    /\ UNCHANGED <<search, llm_body, sources, buffer, received, lines, calls>>
    /\ conn' = [conn EXCEPT ![e] = "closed"]
    /\ UNCHANGED <<authVars, sessionVars, reply>>

\* a response without the check of its status
ConnectAnyStatus(e, success, body, ending) ==
    /\ pc[e] = "connecting"
    /\ upstream' = [upstream EXCEPT ![e] =
                      [status |-> IF success THEN "success" ELSE "error",
                       rest |-> body, ending |-> ending]]
    /\ pc' = [pc EXCEPT ![e] = "drain"]
    /\ UNCHANGED <<search, llm_body, sources, events, buffer, received, lines,
                   calls>>
    /\ UNCHANGED <<authVars, sessionVars, reply, conn>>

\* send() returns a response: the error event unless the status is a
\* success, else on to the byte stream with an empty buffer
Connect(e, success, body, ending) ==
    /\ pc[e] = "connecting"
    /\ upstream' = [upstream EXCEPT ![e] =
                      [status |-> IF success THEN "success" ELSE "error",
                       rest |-> body, ending |-> ending]]
    /\ IF success
       THEN /\ pc' = [pc EXCEPT ![e] = "drain"]
            /\ UNCHANGED events
       ELSE /\ events' = [events EXCEPT ![e] =
                            Append(@, ErrorEvent("LLM service returned an error"))]
            /\ pc' = [pc EXCEPT ![e] = "failed"]
    /\ UNCHANGED <<search, llm_body, sources, buffer, received, lines, calls>>
    /\ UNCHANGED <<authVars, sessionVars, reply, conn>>

\* the generator returns right after the error event
AfterErrorReturn(e) ==
    /\ pc[e] = "failed"
    /\ pc' = [pc EXCEPT ![e] = "finished"]
    /\ UNCHANGED <<search, llm_body, sources, events, upstream, buffer,
                   received, lines, calls>>
    /\ UNCHANGED <<authVars, sessionVars, reply, conn>>

\* the poll after the error event: the done event
AfterError(e) ==
    /\ pc[e] = "failed"
    /\ events' = [events EXCEPT ![e] = Append(@, DoneEvent)]
    /\ pc' = [pc EXCEPT ![e] = "finished"]
    /\ UNCHANGED <<search, llm_body, sources, upstream, buffer, received,
                   lines, calls>>
    /\ UNCHANGED <<authVars, sessionVars, reply, conn>>

\* the buffer is run up to the next yield, with one buffer for every exchange
LinesShared(e, buf) ==
    LET r == RunLines(buf, <<>>) IN
    /\ buffer' = [x \in Exchanges |-> r.buffer]
    /\ lines' = [lines EXCEPT ![e] = @ \o r.lines]
    /\ IF r.event # None
       THEN /\ events' = [events EXCEPT ![e] = Append(@, r.event)]
            /\ pc' = [pc EXCEPT ![e] = "lines"]
       ELSE /\ pc' = [pc EXCEPT ![e] = "drain"]
            /\ UNCHANGED events

\* the buffer is run up to the next yield and cleared after an event
LinesClear(e, buf) ==
    LET r == RunLines(buf, <<>>) IN
    /\ buffer' = [buffer EXCEPT ![e] = IF r.event # None THEN <<>> ELSE r.buffer]
    /\ lines' = [lines EXCEPT ![e] = @ \o r.lines]
    /\ IF r.event # None
       THEN /\ events' = [events EXCEPT ![e] = Append(@, r.event)]
            /\ pc' = [pc EXCEPT ![e] = "lines"]
       ELSE /\ pc' = [pc EXCEPT ![e] = "drain"]
            /\ UNCHANGED events

\* the buffer is run up to the next yield
Lines(e, buf) ==
    LET r == RunLines(buf, <<>>) IN
    /\ buffer' = [buffer EXCEPT ![e] = r.buffer]
    /\ lines' = [lines EXCEPT ![e] = @ \o r.lines]
    /\ IF r.event # None
       THEN /\ events' = [events EXCEPT ![e] = Append(@, r.event)]
            /\ pc' = [pc EXCEPT ![e] = "lines"]
       ELSE /\ pc' = [pc EXCEPT ![e] = "drain"]
            /\ UNCHANGED events

\* byte_stream.next() gives a chunk of n bytes
ReadChunk(e, n) ==
    /\ pc[e] = "drain"
    /\ n <= Len(upstream[e].rest)
    /\ LET chunk == SubSeq(upstream[e].rest, 1, n) IN
       /\ upstream' = [upstream EXCEPT ![e].rest = SubSeq(@, n + 1, Len(@))]
       /\ received' = [received EXCEPT ![e] = @ \o chunk]
       /\ IF Utf8Valid(chunk)
          THEN Lines(e, buffer[e] \o chunk)
          ELSE UNCHANGED <<pc, events, buffer, lines>>
    /\ UNCHANGED <<search, llm_body, sources, calls>>
    /\ UNCHANGED <<authVars, sessionVars, reply, conn>>

\* the poll after a content event: the rest of the buffer
ResumeLines(e) ==
    /\ pc[e] = "lines"
    /\ Lines(e, buffer[e])
    /\ UNCHANGED <<search, llm_body, sources, upstream, received, calls>>
    /\ UNCHANGED <<authVars, sessionVars, reply, conn>>

\* the end of the byte stream with the rest of the buffer taken as a line
ReadEndFlush(e) ==
    /\ pc[e] = "drain"
    /\ upstream[e].rest = <<>>
    /\ upstream[e].ending = "eof"
    /\ events' = [events EXCEPT ![e] =
          IF LineEvent(TrimEndCr(buffer[e])) # None
          THEN @ \o <<LineEvent(TrimEndCr(buffer[e])), DoneEvent>>
          ELSE Append(@, DoneEvent)]
    /\ pc' = [pc EXCEPT ![e] = "finished"]
    /\ UNCHANGED <<search, llm_body, sources, upstream, buffer, received,
                   lines, calls>>
    /\ UNCHANGED <<authVars, sessionVars, reply, conn>>

\* byte_stream.next() gives None: the done event
ReadEnd(e) ==
    /\ pc[e] = "drain"
    /\ upstream[e].rest = <<>>
    /\ upstream[e].ending = "eof"
    /\ events' = [events EXCEPT ![e] = Append(@, DoneEvent)]
    /\ pc' = [pc EXCEPT ![e] = "finished"]
    /\ UNCHANGED <<search, llm_body, sources, upstream, buffer, received,
                   lines, calls>>
    /\ UNCHANGED <<authVars, sessionVars, reply, conn>>

\* a chunk-read error that returns from the stream
ReadErrorReturn(e) ==
    /\ pc[e] = "drain"
    /\ upstream[e].ending = "error"
    /\ pc' = [pc EXCEPT ![e] = "finished"]
    /\ UNCHANGED <<search, llm_body, sources, events, upstream, buffer,
                   received, lines, calls>>
    /\ UNCHANGED <<authVars, sessionVars, reply, conn>>

\* a chunk-read error that is told to the client like a failed call
ReadErrorNotice(e) ==
    /\ pc[e] = "drain"
    /\ upstream[e].ending = "error"
    /\ events' = [events EXCEPT ![e] =
                    Append(@, ErrorEvent("LLM service unavailable"))]
    /\ pc' = [pc EXCEPT ![e] = "failed"]
    /\ UNCHANGED <<search, llm_body, sources, upstream, buffer, received,
                   lines, calls>>
    /\ UNCHANGED <<authVars, sessionVars, reply, conn>>

\* byte_stream.next() gives an error: break, then the done event; what the
\* upstream had not delivered yet is never read
ReadError(e) ==
    /\ pc[e] = "drain"
    /\ upstream[e].ending = "error"
    /\ events' = [events EXCEPT ![e] = Append(@, DoneEvent)]
    /\ pc' = [pc EXCEPT ![e] = "finished"]
    /\ UNCHANGED <<search, llm_body, sources, upstream, buffer, received,
                   lines, calls>>
    /\ UNCHANGED <<authVars, sessionVars, reply, conn>>

\* the poll after the done event: the generator returns and drops what it
\* holds, the stream has ended
Finish(e) ==
    /\ pc[e] = "finished"
    /\ pc' = [pc EXCEPT ![e] = "done"]
    /\ UNCHANGED <<search, llm_body, sources, events, upstream, buffer,
                   received, lines, calls>>
    /\ conn' = [conn EXCEPT ![e] = IF @ = "open" THEN "closed" ELSE @]
    /\ UNCHANGED <<authVars, sessionVars, reply>>

InitRelay ==
    /\ now = StartSecs * TicksPerSec
    /\ jwt_secret = "k1"
    /\ tok = None
    /\ issued = None
    /\ vres = None
    /\ req = None
    /\ resp = None
    /\ NoExchange
    /\ NoSession

NextRelay ==
    \E e \in {1} :
        \/ \E q \in Queries : ChatStream(e, q)
        \/ \E o \in SearchOutcomes : SearchReturn(e, o)
        \/ Announce(e)
        \/ Dial(e)
        \/ ConnectFail(e)
        \/ \E ok \in BOOLEAN, b \in Bodies, en \in Endings :
              Connect(e, ok, b, en)
        \/ AfterError(e)
        \/ \E n \in 1..MaxChunk : ReadChunk(e, n)
        \/ ResumeLines(e)
        \/ ReadEnd(e)
        \/ ReadError(e)
        \/ Finish(e)

SpecRelay == InitRelay /\ [][NextRelay]_vars

(***************************************************************************)
(* Claims about the stream of exchange 1.                                  *)
(***************************************************************************)
Kinds(evs) == [i \in DOMAIN evs |-> evs[i].kind]
CountKind(evs, k) == Cardinality({i \in DOMAIN evs : evs[i].kind = k})

\* the stream was driven to its end
Ended(e) == pc[e] = "done"

(***************************************************************************)
(* C1: a stream driven to its end has yielded exactly one done event, and  *)
(* at no time is an event yielded after a done event.                      *)
(***************************************************************************)
\* C1: no event follows a done event, and an ended stream has exactly one
\* done event, as its last event.
C1_OneDoneLast ==
    /\ \A i \in DOMAIN events[1] :
          events[1][i].kind = "done" => i = Len(events[1])
    /\ Ended(1) => /\ events[1] # <<>>
                   /\ events[1][Len(events[1])].kind = "done"
                   /\ CountKind(events[1], "done") = 1

\* the stream ended after a content event and a chunk-read error
C1_Witness ==
    /\ Ended(1)
    /\ upstream[1].status = "success"
    /\ upstream[1].ending = "error"
    /\ CountKind(events[1], "content") = 1
    /\ buffer[1] # <<>>

(***************************************************************************)
(* C2: the first event is the sources event with the whole source list,    *)
(* the empty list when retrieval gave nothing; there is one sources event, *)
(* and it has been yielded when the generation call is made.               *)
(***************************************************************************)
\* C2: the sources event is first, carries the whole source list, is the
\* only one, and precedes the generation call.
C2_SourcesFirst ==
    /\ events[1] # <<>>
       => /\ events[1][1].kind = "sources"
          /\ events[1][1].data = sources[1]
          /\ search[1].kind # "json" => events[1][1].data = <<>>
    /\ CountKind(events[1], "sources") <= 1
    /\ calls[1].llm > 0 => CountKind(events[1], "sources") = 1
    /\ pc[1] \in {"dial", "connecting", "failed", "drain", "lines", "finished",
                  "done"}
       => CountKind(events[1], "sources") = 1

\* retrieval was unreachable and the stream went on to content events
C2_Witness ==
    /\ search[1].kind = "unreachable"
    /\ Len(events[1]) = 3
    /\ Kinds(events[1]) = <<"sources", "content", "content">>
    /\ events[1][1].data = <<>>

(***************************************************************************)
(* C9: when the generation call fails to connect or answers with a status  *)
(* that is no success, the events of the ended stream are sources, error,  *)
(* done; no byte of the body is read; and the call is made at most once.   *)
(***************************************************************************)
\* C9: after a failed dial the events are sources, error, done, no body byte
\* is read and the generation call is made once.
C9_DialFailure ==
    /\ calls[1].llm <= 1
    /\ (upstream[1] # None /\ upstream[1].status # "success")
       => /\ received[1] = <<>>
          /\ CountKind(events[1], "content") = 0
          /\ pc[1] \in {"failed", "finished", "done"}
          /\ pc[1] = "failed" => Kinds(events[1]) = <<"sources", "error">>
          /\ pc[1] \in {"finished", "done"}
             => Kinds(events[1]) = <<"sources", "error", "done">>

\* an error status whose response has a body with content lines
C9_Witness ==
    /\ Ended(1)
    /\ upstream[1] # None
    /\ upstream[1].status = "error"
    /\ upstream[1].rest # <<>>
    /\ Kinds(events[1]) = <<"sources", "error", "done">>

(***************************************************************************)
(* C10: whenever the relay waits for more bytes, the lines it has taken    *)
(* are the complete lines of the bytes received so far, in order, and the  *)
(* buffer is the partial line after the last line feed.                    *)
(***************************************************************************)
\* the complete lines of a byte sequence, each without its trailing CRs
RECURSIVE CompleteLines(_)
CompleteLines(bytes) ==
    LET at == FindNewline(bytes) IN
    IF at = 0 THEN <<>>
    ELSE <<TrimEndCr(SubSeq(bytes, 1, at - 1))>>
            \o CompleteLines(SubSeq(bytes, at + 1, Len(bytes)))

\* what follows the last line feed
RECURSIVE PartialLine(_)
PartialLine(bytes) ==
    LET at == FindNewline(bytes) IN
    IF at = 0 THEN bytes ELSE PartialLine(SubSeq(bytes, at + 1, Len(bytes)))

\* C10: waiting for more bytes, the relay has taken exactly the complete
\* lines received and holds the partial remainder verbatim.
C10_LinesAndRemainder ==
    pc[1] = "drain"
    => /\ lines[1] = CompleteLines(received[1])
       /\ buffer[1] = PartialLine(received[1])

\* C10 restricted to streams in which every character is one byte
C10_AsciiOnly ==
    (pc[1] = "drain" /\ \A i \in DOMAIN received[1] : received[1][i] \notin {"L", "C"})
    => /\ lines[1] = CompleteLines(received[1])
       /\ buffer[1] = PartialLine(received[1])

----------------------------------------------------------------------------
\* Validation of the query

ValidationRejection ==
    Err(AppErrorResponse(Validation("query must not be empty")))

\* C11: a chat request whose query is empty after trimming is answered with
\* the validation error (400, VALIDATION_ERROR) and nothing else happens for
\* it: the retrieval service is not called, the generation service is not
\* called and no event is emitted; every exchange that gets past validation
\* carries a non-empty trimmed query.
C11_EmptyQueryRejected ==
    /\ (pc[1] = "rejected") =>
          /\ reply[1] = ValidationRejection
          /\ reply[1].err.status = 400
          /\ reply[1].err.body.error.code = "VALIDATION_ERROR"
          /\ calls[1] = [etl |-> 0, llm |-> 0]
          /\ events[1] = <<>>
    /\ (pc[1] \notin {"idle", "rejected"}) =>
          /\ llm_body[1].query # <<>>
          /\ llm_body[1].query = Trim(llm_body[1].query)
          /\ reply[1].kind \in {"None", "Ok"}
    /\ (calls[1].etl > 0 \/ calls[1].llm > 0 \/ events[1] # <<>>) =>
          pc[1] \notin {"idle", "rejected"}

C11_Witness ==
    /\ pc[1] = "rejected"
    /\ reply[1] = ValidationRejection
    /\ calls[1].etl = 0

----------------------------------------------------------------------------
\* Retrieval that fails

RetrievalFailed(e) ==
    /\ search[e] # None
    /\ search[e].kind \in {"unreachable", "unparseable"}

\* C12: when the retrieval service cannot be reached or its answer is not
\* parseable, the context and the citations are both empty and nothing is
\* raised: the handler still returns the event stream, the generation service
\* is called with the empty context, and the first event announces an empty
\* list of sources.
C12_RetrievalDegrades ==
    RetrievalFailed(1) =>
        /\ reply[1] = Ok("Sse")
        /\ pc[1] # "rejected"
        /\ llm_body[1].context = <<>>
        /\ sources[1] = <<>>
        /\ (events[1] # <<>>) => (events[1][1] = SourcesEvent(<<>>))
        /\ (pc[1] \notin {"announce", "dial"}) => (calls[1].llm = 1)

C12_Witness ==
    /\ RetrievalFailed(1)
    /\ calls[1].llm = 1
    /\ llm_body[1].context = <<>>
    /\ events[1] # <<>>
    /\ events[1][1] = SourcesEvent(<<>>)

(***************************************************************************)
(* extract_search_results over the result lists of the retrieval service.  *)
(***************************************************************************)
\* longest result list the retrieval service returns here (the request
\* asks for at most five)
MaxItems == 4

\* an item whose payload has a text that is not a string
ItemNumText(n) ==
    JObj(<< <<"score", [t |-> "num", s |-> n]>>,
            <<"payload",
              JObj(<< <<"text", [t |-> "num", s |-> 7]>>,
                      <<"file_name", JStr("b.pdf")>> >>)>> >>)

\* an item with neither payload nor score
ItemNoPayload == JObj(<< <<"id", JStr("p1")>> >>)

ItemShapes ==
    { Item(9, "t1"), Item(8, "t2"), Item(5, ""), ItemNoText(3),
      ItemNumText(2), ItemNoPayload }

ItemLists == UNION { [1..n -> ItemShapes] : n \in 0..MaxItems }

ExtractOutcomes == { [kind |-> "json", body |-> SearchBody(items)] :
                       items \in ItemLists }

NextExtract ==
    \/ \E q \in Queries : ChatStream(1, q)
    \/ \E o \in ExtractOutcomes : SearchReturn(1, o)
    \/ Announce(1)

SpecExtract == InitRelay /\ [][NextExtract]_vars

\* the result items of the answer exchange e got
ResultItems(e) == JsonGet(JsonGet(search[e].body, "data").val, "results").val.a

Extracted(e) ==
    /\ search[e] # None
    /\ search[e].kind = "json"
    /\ JsonGet(search[e].body, "data") # None

HasPayload(item) == JsonGet(item, "payload") # None

TextMember(item) ==
    IF HasPayload(item) THEN JsonGet(JsonGet(item, "payload").val, "text")
    ELSE None

\* the text member is there and is not the empty string
TextPresent(item) ==
    /\ TextMember(item) # None
    /\ ~(TextMember(item).val.t = "str" /\ TextMember(item).val.s = "")

\* the text member is a string that is not empty
TextIsString(item) ==
    /\ TextMember(item) # None
    /\ TextMember(item).val.t = "str"
    /\ TextMember(item).val.s # ""

\* the citation of an item, every absent member defaulted
Citation(item) ==
    LET payload == JsonGet(item, "payload").val
        member(k) == IF JsonGet(payload, k) # None
                        /\ JsonGet(payload, k).val.t = "str"
                     THEN JsonGet(payload, k).val.s ELSE ""
        score == IF JsonGet(item, "score") # None
                    /\ JsonGet(item, "score").val.t = "num"
                 THEN JsonGet(item, "score").val.s ELSE 0 IN
    [document_id |-> member("document_id"), file_name |-> member("file_name"),
     heading |-> member("heading"), score |-> score]

\* C13 as stated: each of the k items gives one citation and, when its text
\* is present and non-empty, one fragment.
C13_Original ==
    Extracted(1) =>
        /\ Len(sources[1]) = Len(ResultItems(1))
        /\ Len(llm_body[1].context)
              = Len(SelectSeq(ResultItems(1), TextPresent))

\* C13: extraction never stops at an item. Every item that has a payload
\* gives one citation, its absent members defaulted to "" and 0, and gives
\* one fragment exactly when its text is a non-empty string; an item without
\* a payload gives neither, and the items after it are still extracted.
\* Citations and fragments are in the order of the response, so three valid
\* items and one without text give three fragments and four citations.
C13_CitationPerPayload ==
    Extracted(1) =>
        LET items == ResultItems(1)
            withPayload == SelectSeq(items, HasPayload)
            withText == SelectSeq(items, TextIsString) IN
        /\ sources[1] = [i \in 1..Len(withPayload) |-> Citation(withPayload[i])]
        /\ llm_body[1].context
              = [i \in 1..Len(withText) |-> TextMember(withText[i]).val.s]
        /\ (pc[1] = "dial") => (events[1] = <<SourcesEvent(sources[1])>>)

C13_Witness ==
    /\ Extracted(1)
    /\ Len(ResultItems(1)) = 4
    /\ Len(SelectSeq(ResultItems(1), TextIsString)) = 3
    /\ \E i \in 1..4 : ResultItems(1)[i] = ItemNoText(3)
    /\ Len(llm_body[1].context) = 3
    /\ Len(sources[1]) = 4
    /\ pc[1] = "dial"

----------------------------------------------------------------------------
\* One exchange from end to end

IsPrefix(a, b) == Len(a) <= Len(b) /\ SubSeq(b, 1, Len(a)) = a

\* retrieval is down and the generation service streams "a", "b" and closes
TwoLineExchange(e) ==
    /\ search[e] # None
    /\ search[e].kind = "unreachable"
    /\ upstream[e] # None
    /\ upstream[e].status = "success"
    /\ upstream[e].ending = "eof"
    /\ received[e] \o upstream[e].rest = TwoContentLines

\* C14: with retrieval down and the generation service streaming the content
\* lines "a" and "b" and then closing, the events of the ended stream are
\* exactly sources with the empty list, content "a", content "b", done; at
\* every moment before, the events are a prefix of that sequence, so there is
\* no error event and the contents come in the order of the lines.
C14_EndToEnd ==
    TwoLineExchange(1) =>
        /\ IsPrefix(Kinds(events[1]), <<"sources", "content", "content", "done">>)
        /\ events[1][1].data = <<>>
        /\ (Len(events[1]) >= 2) => (events[1][2].data = <<"a">>)
        /\ (Len(events[1]) >= 3) => (events[1][3].data = <<"b">>)
        /\ Ended(1) => (Len(events[1]) = 4 /\ events[1][4] = DoneEvent)

C14_Witness ==
    /\ TwoLineExchange(1)
    /\ Ended(1)
    /\ lines[1] = <<ContentLine(<<"a">>), ContentLine(<<"b">>)>>
    /\ Kinds(events[1]) = <<"sources", "content", "content", "done">>

----------------------------------------------------------------------------
\* The guard and the call of verify_token

Guarded == resp # None /\ resp.guard

VerifyInvoked == resp.verify # None

\* C15 as stated: without header, with another scheme, or with nothing after
\* "Bearer ", the request is rejected and verify_token is not called.
C15_Original ==
    (Guarded /\ (NoHeaderCause \/ NonBearerCause \/ EmptyTokenCause))
    => (Rejected /\ ~VerifyInvoked)

\* C15: a request without Authorization header, with a header that is no
\* string, or with a header that does not start with "Bearer " is rejected
\* without a call of verify_token; verify_token is called exactly for the
\* headers that start with "Bearer ", the one with nothing after the prefix
\* included: verify_token gets the empty token and rejects it as no token
\* (InvalidToken) before any signature is computed.
C15_VerifyOnlyForBearer ==
    Guarded =>
        /\ (NoHeaderCause \/ NonBearerCause) => (Rejected /\ ~VerifyInvoked)
        /\ VerifyInvoked <=> BearerCause
        /\ EmptyTokenCause =>
              (Rejected /\ resp.verify = Err("InvalidToken"))

C15_Witness ==
    /\ Guarded
    /\ EmptyTokenCause
    /\ Rejected
    /\ resp.verify = Err("InvalidToken")
    /\ resp.body.error.message = "Invalid or expired token"

(***************************************************************************)
(* Two exchanges at once: every poll of either one is a step.              *)
(***************************************************************************)
\* the two exchanges are given different inputs, so that what one of them
\* holds can be told from what the other holds
ConcQueries(e) == IF e = 1 THEN { <<"h", "i">> } ELSE { <<"y", "o">> }

ConcOutcomes(e) ==
    IF e = 1 THEN { [kind |-> "unreachable"] }
    ELSE { [kind |-> "json", body |-> SearchBody(<<Item(9, "ctx")>>)] }

ConcBodies(e) ==
    IF e = 1 THEN { ContentLine(<<"a">>) \o <<LF>> }
    ELSE { <<":", LF>> \o ContentLine(<<"b">>) }

NextConc ==
    \E e \in Exchanges :
        \/ \E q \in ConcQueries(e) : ChatStream(e, q)
        \/ \E o \in ConcOutcomes(e) : SearchReturn(e, o)
        \/ Announce(e)
        \/ Dial(e)
        \/ ConnectFail(e)
        \/ \E ok \in BOOLEAN, b \in ConcBodies(e), en \in {"eof", "error"} :
              Connect(e, ok, b, en)
        \/ AfterError(e)
        \/ \E n \in 1..MaxChunk : ReadChunk(e, n)
        \/ ResumeLines(e)
        \/ ReadEnd(e)
        \/ ReadError(e)
        \/ Finish(e)

SpecConc == InitRelay /\ [][NextConc]_vars

\* the events a sequence of lines gives rise to
RECURSIVE EventsOfLines(_)
EventsOfLines(ls) ==
    IF ls = <<>> THEN <<>>
    ELSE (IF LineEvent(Head(ls)) = None THEN <<>> ELSE <<LineEvent(Head(ls))>>)
            \o EventsOfLines(Tail(ls))

SameEvents(a, b) ==
    /\ Kinds(a) = Kinds(b)
    /\ \A i \in DOMAIN a : a[i].data = b[i].data

\* what exchange e has emitted when it is the only exchange, from what it
\* was given itself: its query's search result and the bytes of its upstream
AloneEvents(e) ==
    LET head == <<SourcesEvent(SearchResult(search[e])[2])>>
        error == <<ErrorEvent(IF upstream[e].status = "refused"
                                 THEN "LLM service unavailable"
                                 ELSE "LLM service returned an error")>>
        body == EventsOfLines(IF pc[e] = "lines" THEN lines[e]
                              ELSE CompleteLines(received[e])) IN
    IF pc[e] \in {"idle", "rejected", "search", "announce"} THEN <<>>
    ELSE IF pc[e] \in {"dial", "connecting"} THEN head
    ELSE IF pc[e] = "failed" THEN head \o error
    ELSE IF upstream[e].status # "success" THEN head \o error \o <<DoneEvent>>
    ELSE IF pc[e] \in {"drain", "lines"} THEN head \o body
    ELSE head \o body \o <<DoneEvent>>

\* C16: under every interleaving of the steps of two exchanges, the buffer
\* of each holds bytes of its own upstream only (it is the partial line at
\* the end of what that upstream has delivered, once the complete lines are
\* taken), and the events of each are the events it emits when it runs alone.
C16_ExchangesIndependent ==
    \A e \in Exchanges :
        /\ SameEvents(events[e], AloneEvents(e))
        /\ IsPrefix(lines[e], CompleteLines(received[e]))
        /\ (pc[e] \in {"drain", "finished", "done"})
              => /\ lines[e] = CompleteLines(received[e])
                 /\ buffer[e] = PartialLine(received[e])

C16_Witness ==
    /\ pc[1] = "drain"
    /\ pc[2] = "drain"
    /\ buffer[1] # <<>>
    /\ buffer[2] # <<>>
    /\ buffer[1] # buffer[2]
    /\ received[1] # received[2]
    /\ upstream[1].rest # <<>>
    /\ llm_body[1].query # llm_body[2].query
    /\ sources[1] # sources[2]

----------------------------------------------------------------------------
\* Lines and content events

HasDataPrefix(line) ==
    /\ Len(line) >= Len(DataPrefix)
    /\ \A i \in DOMAIN DataPrefix : line[i] = DataPrefix[i]

Remainder(line) == SubSeq(line, Len(DataPrefix) + 1, Len(line))

\* the line has the prefix, its remainder parses, and the payload has a
\* content member
HasContentField(line) ==
    /\ HasDataPrefix(line)
    /\ FromStr(Remainder(line)).kind = "Ok"
    /\ JsonGet(FromStr(Remainder(line)).val, ContentKey) # None

\* ... and that member is a string
HasContentString(line) ==
    /\ HasContentField(line)
    /\ JsonGet(FromStr(Remainder(line)).val, ContentKey).val.t = "str"

ContentEvents(e) == SelectSeq(events[e], LAMBDA ev : ev.kind = "content")

\* C17 as stated: one content event for each line taken that has the prefix,
\* parses and has a content member.
C17_Original ==
    Len(ContentEvents(1)) = Len(SelectSeq(lines[1], HasContentField))

\* C17: the content events are, one to one and in order, the lines taken from
\* the buffer that start with "data: ", whose remainder parses as JSON and
\* whose content member is a string, and each carries that string unchanged;
\* every other line taken (no prefix, remainder that does not parse, no
\* content member, content member that is no string) gives no event and the
\* lines after it are still taken: no complete line is left in the buffer
\* when the relay waits for the next chunk.
C17_ContentPerLine ==
    LET with == SelectSeq(lines[1], HasContentString) IN
    /\ Len(ContentEvents(1)) = Len(with)
    /\ \A i \in 1..Len(with) :
          ContentEvents(1)[i].data
             = JsonGet(FromStr(Remainder(with[i])).val, ContentKey).val.s
    /\ (pc[1] = "drain") => (FindNewline(buffer[1]) = 0)

\* a line with a null content was passed over and the line after it gave
\* its event
C17_Witness ==
    /\ pc[1] = "drain"
    /\ lines[1] = <<NullContentLine, ContentLine(<<"k">>)>>
    /\ Len(ContentEvents(1)) = 1
    /\ ContentEvents(1)[1].data = <<"k">>

----------------------------------------------------------------------------
\* The cut of the byte stream into chunks

\* the byte stream was read to its end
DrainedToEnd(e) ==
    /\ Ended(e)
    /\ upstream[e].status = "success"
    /\ upstream[e].ending = "eof"

\* the content events of the body delivered as one chunk
UncutEvents(body) == EventsOfLines(CompleteLines(body))

\* C18: however the byte stream is cut into chunks, inside a line, inside
\* the prefix or inside a character of several bytes, the content events of
\* a stream read to its end are those of the same bytes delivered uncut.
C18_CutIndependent ==
    DrainedToEnd(1) => SameEvents(ContentEvents(1), UncutEvents(received[1]))

\* C18 for the streams in which every character is one byte
C18_AsciiOnly ==
    (DrainedToEnd(1)
        /\ \A i \in DOMAIN received[1] : received[1][i] \notin {"L", "C"})
    => SameEvents(ContentEvents(1), UncutEvents(received[1]))

----------------------------------------------------------------------------
\* The chunk-read error

\* the read of the next chunk gave an error
ChunkErrorStep ==
    /\ pc[1] = "drain"
    /\ pc'[1] \notin {"drain", "lines"}
    /\ upstream[1].ending = "error"

\* C19: the step at which the read of a chunk fails appends the done event
\* and nothing else to the events, which keeps the content events emitted
\* before and emits no error event; from then on nothing is read from the
\* upstream and no event is emitted, so the done event is the last one.
C19_ChunkErrorEnds ==
    [][ /\ ChunkErrorStep =>
              /\ pc'[1] = "finished"
              /\ events'[1] = Append(events[1], DoneEvent)
              /\ received'[1] = received[1]
              /\ upstream'[1] = upstream[1]
              /\ CountKind(events'[1], "error") = 0
        /\ (pc[1] \in {"finished", "done"}) =>
              /\ pc'[1] \in {"finished", "done"}
              /\ events'[1] = events[1]
              /\ received'[1] = received[1]
              /\ upstream'[1] = upstream[1]
      ]_vars

\* a stream ended by a chunk-read error after a content event, with bytes
\* the upstream never delivered
C19_Witness ==
    /\ Ended(1)
    /\ upstream[1].status = "success"
    /\ upstream[1].ending = "error"
    /\ upstream[1].rest # <<>>
    /\ received[1] # <<>>
    /\ Kinds(events[1]) = <<"sources", "content", "done">>

(***************************************************************************)
(* The exchange under a client that keeps polling the stream and services  *)
(* whose pending answers arrive: every step that stays possible is taken.  *)
(***************************************************************************)
\* the steps of exchange 1 that do not run the buffer
PlainStep ==
    \/ \E q \in Queries : ChatStream(1, q)
    \/ \E o \in SearchOutcomes : SearchReturn(1, o)
    \/ Announce(1)
    \/ Dial(1)
    \/ ConnectFail(1)
    \/ \E ok \in BOOLEAN, b \in Bodies, en \in Endings : Connect(1, ok, b, en)
    \/ AfterError(1)
    \/ ReadEnd(1)
    \/ ReadError(1)
    \/ Finish(1)

\* the steps that run the buffer, and the states in which one is possible
LinesStep == (\E n \in 1..MaxChunk : ReadChunk(1, n)) \/ ResumeLines(1)

LinesReady ==
    \/ pc[1] = "drain" /\ upstream[1].rest # <<>>
    \/ pc[1] = "lines"

\* Weak fairness of every step: for the steps that run the buffer it is
\* written out, with LinesReady for ENABLED <<LinesStep>>_vars.
SpecRelayLive ==
    /\ SpecRelay
    /\ WF_vars(PlainStep)
    /\ ([]<>(~LinesReady) \/ []<><<LinesStep>>_vars)

Started(e) == pc[e] = "announce"

DoneEmitted(e) == CountKind(events[e], "done") >= 1

\* the upstream answered with a success status and keeps the connection
\* open without closing it or failing
StallingUpstream(e) ==
    /\ upstream[e] # None
    /\ upstream[e].status = "success"
    /\ upstream[e].ending = "stall"

\* every byte was read and the relay waits for the next chunk
Stalled(e) ==
    /\ StallingUpstream(e)
    /\ pc[e] = "drain"
    /\ upstream[e].rest = <<>>

\* C20 as stated: every started exchange eventually emits the done event.
C20_Original == Started(1) ~> DoneEmitted(1)

\* C20: with a client that keeps polling, a started exchange whose generation
\* call fails, is answered with a status that is no success, or whose byte
\* stream ends or gives an error eventually emits the done event; when the
\* upstream accepts the call and then neither delivers, fails nor closes, the
\* relay waits for the next chunk for ever and no done event is emitted.
C20_DoneUnlessStalled ==
    /\ Started(1) ~> (DoneEmitted(1) \/ Stalled(1))
    /\ (pc[1] = "failed") ~> DoneEmitted(1)
    /\ (pc[1] \in {"drain", "lines"} /\ ~StallingUpstream(1)) ~> DoneEmitted(1)
    /\ [](StallingUpstream(1) => ~DoneEmitted(1))
    /\ [](Stalled(1) => [](Stalled(1) /\ ~DoneEmitted(1)))

\* the generation call was refused and the stream ended with the done event
C20_Witness ==
    /\ Ended(1)
    /\ upstream[1].status = "refused"
    /\ DoneEmitted(1)
    /\ events[1][Len(events[1])] = DoneEvent

\* the relay waits on a silent upstream after a content event
C20_StallReached ==
    /\ Stalled(1)
    /\ CountKind(events[1], "content") >= 1

(***************************************************************************)
(* The client goes away: the server drops the handler's future or the      *)
(* stream, and with it everything the exchange holds.                      *)
(***************************************************************************)
\* the points at which an exchange waits and can be dropped
Droppable ==
    {"search", "announce", "dial", "connecting", "failed", "drain", "lines",
     "finished"}

\* a drop that leaves the upstream read running in a task of its own
DisconnectDetached(e) ==
    /\ pc[e] \in Droppable
    /\ pc' = [pc EXCEPT ![e] = "dropped"]
    /\ UNCHANGED <<search, llm_body, sources, events, upstream, buffer,
                   received, lines, calls, reply, conn>>
    /\ UNCHANGED <<authVars, sessionVars>>

\* the future of chat_stream or the stream of build_sse_stream is dropped:
\* no line of it runs any more, and the pending call, the response and the
\* byte stream it owns are dropped with it
Disconnect(e) ==
    /\ pc[e] \in Droppable
    /\ pc' = [pc EXCEPT ![e] = "dropped"]
    /\ conn' = [conn EXCEPT ![e] = IF @ = "open" THEN "closed" ELSE @]
    /\ UNCHANGED <<search, llm_body, sources, events, upstream, buffer,
                   received, lines, calls, reply>>
    /\ UNCHANGED <<authVars, sessionVars>>

NextCancel ==
    \/ NextConc
    \/ \E e \in Exchanges : Disconnect(e)

SpecCancel == InitRelay /\ [][NextCancel]_vars

Dropped(e) == pc[e] = "dropped"

\* what belongs to exchange e
ExchangeState(e) ==
    <<pc[e], search[e], llm_body[e], sources[e], events[e], upstream[e],
      buffer[e], received[e], lines[e], calls[e], reply[e], conn[e]>>

\* C21: once the client of an exchange has gone, at whatever point, the
\* exchange emits no further event, makes no further call, reads nothing
\* more, and its connection to the generation service is not open; the step
\* that drops it changes nothing of the other exchange, which goes on to
\* emit the events it emits when it runs alone.
C21_DisconnectStops ==
    /\ [](\A e \in Exchanges : Dropped(e) => conn[e] # "open")
    /\ [](\A e \in Exchanges :
            ~Dropped(e) => SameEvents(events[e], AloneEvents(e)))
    /\ [][\A e \in Exchanges :
            /\ Dropped(e) => (ExchangeState(e))' = ExchangeState(e)
            /\ (~Dropped(e) /\ Dropped(e)') =>
                  /\ events'[e] = events[e]
                  /\ calls'[e] = calls[e]
                  /\ received'[e] = received[e]
                  /\ \A f \in Exchanges \ {e} :
                        (ExchangeState(f))' = ExchangeState(f)
       ]_vars

\* exchange 1 was dropped while it waited for the next chunk with a partial
\* line in its buffer, and exchange 2 ran to its end
C21_Witness ==
    /\ Dropped(1)
    /\ conn[1] = "closed"
    /\ upstream[1] # None
    /\ upstream[1].rest # <<>>
    /\ buffer[1] # <<>>
    /\ Kinds(events[1]) = <<"sources">>
    /\ Ended(2)
    /\ DoneEmitted(2)

\* exchange 1 was dropped before the generation service was called
C21_DroppedBeforeDial ==
    /\ Dropped(1)
    /\ calls[1].llm = 0
    /\ conn[1] = "none"
    /\ Len(events[1]) = 1

----------------------------------------------------------------------------
\* The partial line at the end of the stream

\* the byte stream ends or fails at this step
StreamEndStep ==
    /\ pc[1] = "drain"
    /\ pc'[1] \notin {"drain", "lines"}

\* C22: when the byte stream ends or a read fails while the buffer holds a
\* partial line, that step emits the done event and nothing else and takes
\* no line from the buffer, and nothing is emitted later; so a last
\* "data: " line with a content member and no line feed gives no content
\* event.
C22_RemainderDiscarded ==
    /\ [][ /\ (StreamEndStep /\ buffer[1] # <<>>) =>
                 /\ events'[1] = Append(events[1], DoneEvent)
                 /\ lines'[1] = lines[1]
           /\ (pc[1] \in {"finished", "done"}) =>
                 (events'[1] = events[1] /\ lines'[1] = lines[1])
         ]_vars
    /\ [](buffer[1] = ContentLine(<<"z">>) =>
            \A i \in DOMAIN events[1] :
                events[1][i].kind = "content" => events[1][i].data # <<"z">>)

\* the stream was read to its end with the line of content "z" left in the
\* buffer
C22_Witness ==
    /\ DrainedToEnd(1)
    /\ buffer[1] = ContentLine(<<"z">>)
    /\ HasContentString(buffer[1])
    /\ Len(ContentEvents(1)) = 0
    /\ events[1][Len(events[1])] = DoneEvent

(***************************************************************************)
(* routes/auth.rs: login, refresh and logout, with jwt::create_refresh_    *)
(* token.                                                                  *)
(***************************************************************************)
\* the lifetime login and refresh ask of create_access_token, in seconds
AccessSecs == 3600
\* Duration::days(7) of create_refresh_token
RefreshDays == 7
RefreshSecs == RefreshDays * 24 * 60 * 60

\* token pairs a client holds in one behaviour
MaxPairs == 2
\* what happens around the client in one behaviour: jumps of the clock and
\* changes an administrator makes to the users table
MaxEvents == 1

\* create_refresh_token that signs with a key of its own
create_refresh_token_own_key(user_id, username, role, secret, t) ==
    encode([sub |-> UuidToString(user_id), username |-> username, role |-> role,
            iat |-> Timestamp(t),
            exp |-> Timestamp(t + RefreshSecs * TicksPerSec)],
           IF secret = "k1" THEN "k2" ELSE "k1")

\* jwt::create_refresh_token at clock t
create_refresh_token(user_id, username, role, secret, t) ==
    encode([sub |-> UuidToString(user_id), username |-> username, role |-> role,
            iat |-> Timestamp(t),
            exp |-> Timestamp(t + RefreshSecs * TicksPerSec)],
           secret)

Unauthorized == [variant |-> "Unauthorized", msg |-> ""]
Database == [variant |-> "Database", msg |-> "sqlx"]
Internal(msg) == [variant |-> "Internal", msg |-> msg]

\* the lookup by id without the condition on is_active
FindByIdAnyStatus(db, id) ==
    IF id \in DOMAIN db /\ db[id] # None THEN Ok(db[id]) ELSE None

\* SELECT * FROM users WHERE id = $1 AND is_active = true
FindById(db, id) ==
    IF id \in DOMAIN db /\ db[id] # None /\ db[id].is_active
    THEN Ok(db[id]) ELSE None

\* SELECT * FROM users WHERE username = $1 AND is_active = true
FindByName(db, name) ==
    LET rows == {id \in DOMAIN db :
                   db[id] # None /\ db[id].username = name /\ db[id].is_active} IN
    IF rows = {} THEN None ELSE Ok(db[CHOOSE id \in rows : TRUE])

\* the two tokens and the rest of the data of a successful answer
TokenPair(user, secret, t) ==
    [access_token |-> create_access_token(user.id, user.username, user.role,
                                          secret, AccessSecs, t),
     refresh_token |-> create_refresh_token(user.id, user.username, user.role,
                                            secret, t),
     token_type |-> "Bearer", expires_in |-> AccessSecs]

\* refresh that turns down a refresh token that was used before
refresh_rotating(token, secret, db, db_up, t) ==
    LET claims == verify_token(token, secret, t) IN
    IF claims.kind = "Err" \/ token \in history.used
    THEN Err(AppErrorResponse(Unauthorized))
    ELSE LET user_id == ParseUuid(claims.val.sub) IN
         IF user_id.kind = "Err" THEN Err(AppErrorResponse(Unauthorized))
         ELSE IF ~db_up THEN Err(AppErrorResponse(Database))
         ELSE LET user == FindById(db, user_id.val) IN
              IF user = None THEN Err(AppErrorResponse(Unauthorized))
              ELSE Ok(TokenPair(user.val, secret, t))

\* routes::auth::refresh at clock t; db_up is whether the query succeeds
refresh(token, secret, db, db_up, t) ==
    LET claims == verify_token(token, secret, t) IN
    IF claims.kind = "Err" THEN Err(AppErrorResponse(Unauthorized))
    ELSE LET user_id == ParseUuid(claims.val.sub) IN
         IF user_id.kind = "Err" THEN Err(AppErrorResponse(Unauthorized))
         ELSE IF ~db_up THEN Err(AppErrorResponse(Database))
         ELSE LET user == FindById(db, user_id.val) IN
              IF user = None THEN Err(AppErrorResponse(Unauthorized))
              ELSE Ok(TokenPair(user.val, secret, t))

\* routes::auth::login at clock t; password is what bcrypt::verify gives:
\* "valid", "invalid" or "error"
login(username, password, secret, db, db_up, t) ==
    IF ~db_up THEN Err(AppErrorResponse(Database))
    ELSE LET user == FindByName(db, username) IN
         IF user = None THEN Err(AppErrorResponse(Unauthorized))
         ELSE IF password = "error"
            THEN Err(AppErrorResponse(Internal("Password verification failed")))
         ELSE IF password # "valid" THEN Err(AppErrorResponse(Unauthorized))
         ELSE Ok([tokens |-> TokenPair(user.val, secret, t), user |-> user.val])

\* routes::auth::logout
logout == Ok([message |-> "Logged out successfully"])

(***************************************************************************)
(* SpecSession: the calls of the three handlers and of a guarded route,    *)
(* the clock, and the changes others make to the users table.              *)
(***************************************************************************)
Handed(kind, token) == [kind |-> kind, token |-> token]

HeldTokens == { h.token : h \in held }

\* what a client can send as a token: a token it was handed, or a token
\* that was made elsewhere
ForeignTokens(t) ==
    { RawToken("garbage"),
      create_refresh_token(1, "alice", "user", "k2", t),
      encode([sub |-> NotAUuid, username |-> "alice", role |-> "user",
              iat |-> Timestamp(t), exp |-> Timestamp(t) + AccessSecs],
             jwt_secret),
      create_refresh_token(0, "zed", "admin", jwt_secret, t) }

Login(username, password, db_up) ==
    /\ Cardinality(held) < 2 * MaxPairs
    /\ LET r == login(username, password, jwt_secret, users, db_up, now) IN
       /\ out' = [op |-> "login", res |-> r, arg |-> None, up |-> db_up,
                 again |-> FALSE]
       /\ IF r.kind = "Ok"
          THEN /\ held' = held \cup
                     {Handed("access", r.val.tokens.access_token),
                      Handed("refresh", r.val.tokens.refresh_token)}
               /\ users' = [users EXCEPT ![r.val.user.id].last_login_at =
                                            Ok(Timestamp(now))]
          ELSE UNCHANGED <<held, users>>
    /\ UNCHANGED history
    /\ UNCHANGED <<now, jwt_secret, tok, issued, vres, req, resp, relayVars>>

Refresh(token, db_up) ==
    /\ Cardinality(held) < 2 * MaxPairs
    /\ LET r == refresh(token, jwt_secret, users, db_up, now) IN
       /\ out' = [op |-> "refresh", res |-> r, arg |-> token, up |-> db_up,
                 again |-> token \in history.used]
       /\ IF r.kind = "Ok"
          THEN /\ held' = held \cup
                     {Handed("access", r.val.access_token),
                      Handed("refresh", r.val.refresh_token)}
               /\ history' = [history EXCEPT !.used = @ \cup {token}]
          ELSE UNCHANGED <<held, history>>
    /\ UNCHANGED users
    /\ UNCHANGED <<now, jwt_secret, tok, issued, vres, req, resp, relayVars>>

Logout ==
    /\ out' = [op |-> "logout", res |-> logout, arg |-> None, up |-> TRUE,
               again |-> FALSE]
    /\ history' = [history EXCEPT !.logged_out = TRUE]
    /\ UNCHANGED <<users, held>>
    /\ UNCHANGED <<now, jwt_secret, tok, issued, vres, req, resp, relayVars>>

\* a request for a protected route with the token as bearer credential
CallProtected(token) ==
    /\ out' = [op |-> "guard", arg |-> token, up |-> TRUE, again |-> FALSE,
               res |-> api_routes("/chat/stream", HeaderStr("Bearer ", token),
                                  jwt_secret, now)]
    /\ UNCHANGED <<users, held, history>>
    /\ UNCHANGED <<now, jwt_secret, tok, issued, vres, req, resp, relayVars>>

JumpSecs == {AccessSecs, RefreshSecs}

Jump(secs) ==
    /\ history.events < MaxEvents
    /\ now' = now + secs * TicksPerSec
    /\ history' = [history EXCEPT !.events = @ + 1]
    /\ out' = None
    /\ UNCHANGED <<users, held>>
    /\ UNCHANGED <<jwt_secret, tok, issued, vres, req, resp, relayVars>>

\* an administrator's changes to a row of the users table
Deactivate(id) ==
    /\ history.events < MaxEvents
    /\ users[id].is_active
    /\ users' = [users EXCEPT ![id].is_active = FALSE]
    /\ history' = [history EXCEPT !.events = @ + 1]
    /\ out' = None
    /\ UNCHANGED held
    /\ UNCHANGED <<authVars, relayVars>>

Promote(id) ==
    /\ history.events < MaxEvents
    /\ users[id].role = "user"
    /\ users' = [users EXCEPT ![id].role = "admin"]
    /\ history' = [history EXCEPT !.events = @ + 1]
    /\ out' = None
    /\ UNCHANGED held
    /\ UNCHANGED <<authVars, relayVars>>

InitSession ==
    /\ now = StartSecs * TicksPerSec
    /\ jwt_secret = "k1"
    /\ tok = None
    /\ issued = None
    /\ vres = None
    /\ req = None
    /\ resp = None
    /\ NoExchange
    /\ NoSession

NextSession ==
    \/ \E name \in {NameOf(1), "nobody"},
          password \in {"valid", "invalid", "error"}, up \in BOOLEAN :
          Login(name, password, up)
    \/ \E token \in HeldTokens \cup ForeignTokens(now), up \in BOOLEAN :
          Refresh(token, up)
    \/ Logout
    \/ \E token \in HeldTokens \cup {RawToken("garbage")} : CallProtected(token)
    \/ \E secs \in JumpSecs : Jump(secs)
    \/ \E id \in UserIds : Deactivate(id)
    \/ \E id \in UserIds : Promote(id)

SpecSession == InitSession /\ [][NextSession]_vars

(***************************************************************************)
(* Claims about the tokens a session holds.                                *)
(***************************************************************************)
ClaimsOf(token) == Deserialize(token.payload).val

\* a token a handler issued whose expiry lies ahead of the clock
Unexpired(token) == ClaimsOf(token).exp > Timestamp(now)

GuardAccepts(token) ==
    LET r == api_routes("/chat/stream", HeaderStr("Bearer ", token),
                        jwt_secret, now) IN
    r.status = 200 /\ r.handler = "/chat/stream"

\* the refresh operation answers the token with a new pair when its lookup
\* succeeds
RefreshAccepts(token) == refresh(token, jwt_secret, users, TRUE, now).kind = "Ok"

SubjectActive(token) ==
    LET id == ParseUuid(ClaimsOf(token).sub) IN
    id.kind = "Ok" /\ FindById(users, id.val) # None

\* C23 as stated: every unexpired refresh token passes the guard as a bearer
\* credential, and every unexpired access token is accepted by the refresh
\* operation.
C23_Original ==
    \A h \in held :
        Unexpired(h.token) =>
            /\ h.kind = "refresh" => GuardAccepts(h.token)
            /\ h.kind = "access" => RefreshAccepts(h.token)

\* C23: verification does not tell the two kinds of token apart: every
\* unexpired refresh token passes the guard as a bearer credential, and every
\* unexpired access token is accepted by the refresh operation whenever the
\* user it names is still active and the lookup of that user succeeds,
\* exactly as a refresh token is.
C23_KindsNotDistinguished ==
    \A h \in held :
        Unexpired(h.token) =>
            /\ h.kind = "refresh" => GuardAccepts(h.token)
            /\ SubjectActive(h.token) => RefreshAccepts(h.token)
            /\ (out # None /\ out.op = "guard" /\ out.arg = h.token)
                  => out.res.status = 200
            /\ (out # None /\ out.op = "refresh" /\ out.arg = h.token
                  /\ out.up /\ SubjectActive(h.token))
                  => out.res.kind = "Ok"

\* the guard has just let a refresh token through, after the refresh
\* operation took an access token
C23_Witness ==
    /\ out # None /\ out.op = "guard" /\ out.res.status = 200
    /\ Handed("refresh", out.arg) \in held
    /\ Unexpired(out.arg)
    /\ \E t \in history.used : Handed("access", t) \in held

\* an unexpired access token of a deactivated user was turned down by refresh
C23_AccessTokenRefused ==
    /\ out # None /\ out.op = "refresh" /\ out.res.kind = "Err"
    /\ Handed("access", out.arg) \in held
    /\ Unexpired(out.arg)
    /\ out.up
    /\ out.res.err.status = 401

\* C24: whatever logins, refreshes and logouts came before, the guard
\* accepts a token the handlers issued exactly when its expiry is not more
\* than the leeway behind the clock, so every unexpired one passes; and a
\* refresh token that was used before is taken again by refresh while it is
\* unexpired and its user is active.
C24_NothingRevoked ==
    /\ \A h \in held :
          /\ GuardAccepts(h.token)
                <=> ClaimsOf(h.token).exp >= Timestamp(now) - LEEWAY
          /\ Unexpired(h.token) => GuardAccepts(h.token)
    /\ \A t \in history.used :
          (Unexpired(t) /\ SubjectActive(t)) => RefreshAccepts(t)
    /\ (out # None /\ out.op = "guard" /\ out.arg \in HeldTokens
          /\ Unexpired(out.arg)) => out.res.status = 200
    /\ (out # None /\ out.op = "refresh" /\ out.again /\ out.up
          /\ Unexpired(out.arg) /\ SubjectActive(out.arg))
          => out.res.kind = "Ok"

\* after a logout, refresh has just taken a refresh token it had taken before
C24_Witness ==
    /\ history.logged_out
    /\ out # None /\ out.op = "refresh" /\ out.again
    /\ out.res.kind = "Ok"
    /\ Handed("refresh", out.arg) \in held
    /\ GuardAccepts(out.arg)
    /\ \A h \in held : Unexpired(h.token) => GuardAccepts(h.token)

\* what refresh was given verifies and names, by a well-formed id, a row of
\* the users table that is active
NamesActiveUser(token) ==
    /\ verify_token(token, jwt_secret, now).kind = "Ok"
    /\ LET id == ParseUuid(ClaimsOf(token).sub) IN
       /\ id.kind = "Ok"
       /\ id.val \in UserIds
       /\ users[id.val].is_active

StoredUser(token) == users[ParseUuid(ClaimsOf(token).sub).val]

\* the two tokens of a pair verify, live 3600 s and 7 days, and carry the
\* id, name and role of the user
PairOf(pair, user) ==
    LET a == verify_token(pair.access_token, jwt_secret, now)
        r == verify_token(pair.refresh_token, jwt_secret, now) IN
    /\ a.kind = "Ok" /\ r.kind = "Ok"
    /\ a.val.exp - a.val.iat = 3600
    /\ r.val.exp - r.val.iat = 604800
    /\ a.val.iat = Timestamp(now) /\ r.val.iat = Timestamp(now)
    /\ \A c \in {a.val, r.val} :
          /\ c.sub = UuidToString(user.id)
          /\ c.username = user.username
          /\ c.role = user.role
    /\ pair.expires_in = 3600 /\ pair.token_type = "Bearer"

\* C25 as stated: refresh issues a pair only for a token that verifies and
\* names an active user, the pair carries the stored user's data, and every
\* other outcome is Unauthorized.
C25_Original ==
    (out # None /\ out.op = "refresh") =>
        IF out.res.kind = "Ok"
        THEN /\ NamesActiveUser(out.arg)
             /\ PairOf(out.res.val, StoredUser(out.arg))
        ELSE /\ out.res.err.status = 401
             /\ out.res.err.body.error.code = "UNAUTHORIZED"

\* the presented token reaches the lookup of the user
ReachesLookup(token) ==
    /\ verify_token(token, jwt_secret, now).kind = "Ok"
    /\ ParseUuid(ClaimsOf(token).sub).kind = "Ok"

\* C25: refresh issues a pair (access 3600 s, refresh 7 days) only for a
\* token that verifies and names an active user, found by a lookup that
\* succeeded; the pair carries the stored user's id, name and role; a lookup
\* that fails is answered with the internal error, every other case with
\* Unauthorized, and neither answer carries a token.
C25_RefreshOutcomes ==
    (out # None /\ out.op = "refresh") =>
        IF out.res.kind = "Ok"
        THEN /\ out.up
             /\ NamesActiveUser(out.arg)
             /\ PairOf(out.res.val, StoredUser(out.arg))
        ELSE /\ out.res.err.body.data = "null"
             /\ IF ReachesLookup(out.arg) /\ ~out.up
                THEN /\ out.res.err.status = 500
                     /\ out.res.err.body.error.code = "INTERNAL_ERROR"
                ELSE /\ out.res.err.status = 401
                     /\ out.res.err.body.error.code = "UNAUTHORIZED"
                     /\ ~NamesActiveUser(out.arg)

\* refresh has just answered a token that says "user" with a pair that says
\* "admin", the role of the stored row
C25_Witness ==
    /\ out # None /\ out.op = "refresh" /\ out.res.kind = "Ok"
    /\ ClaimsOf(out.arg).role = "user"
    /\ StoredUser(out.arg).role = "admin"
    /\ ClaimsOf(out.res.val.access_token).role = "admin"
    /\ ClaimsOf(out.res.val.refresh_token).exp
          - ClaimsOf(out.res.val.refresh_token).iat = 604800

\* the lookup failed for a token that verifies: the answer is the internal
\* error
C25_LookupFailed ==
    /\ out # None /\ out.op = "refresh" /\ ~out.up
    /\ out.res.kind = "Err" /\ out.res.err.status = 500
    /\ NamesActiveUser(out.arg)

====
